---- MODULE Spec2Model ----
(***************************************************************************)
(* State-machine model of src/Emergency2.py: EmergencyServicePerformance,  *)
(* an in-memory, append-only list of call records (call_logs) with three   *)
(* aggregate metrics and a timeframe filter.                               *)
(*                                                                         *)
(* datetime and timedelta are modelled as CPython stores them: a datetime  *)
(* is (ordinal day, second of the day, microsecond), a timedelta is the    *)
(* normalised triple (days, seconds, microseconds).                        *)
(***************************************************************************)
EXTENDS Integers, Sequences, FiniteSets

VARIABLES call_logs,   \* self.call_logs: the list of stored call records
          universe,    \* which inputs callers draw from: "ticks" or "example"
          op,          \* name of the last method called
          args,        \* arguments of that call
          result,      \* its return value (None when it raised)
          exc          \* the exception it raised (NoExc when it returned)

vars == <<call_logs, universe, op, args, result, exc>>

----------------------------------------------------------------------------
(* Bounds of the model *)

MaxLogs == 3      \* calls are issued only while the store holds at most this
MaxBatch == 2     \* longest list passed to add_multiple_call_logs

----------------------------------------------------------------------------
(* datetime / timedelta *)

SecondsPerDay == 86400
MicrosPerSecond == 1000000

DT(day, sec, us) == [day |-> day, sec |-> sec, us |-> us]

\* datetime <= datetime
DtLE(a, b) ==
    \/ a.day < b.day
    \/ a.day = b.day /\ a.sec < b.sec
    \/ a.day = b.day /\ a.sec = b.sec /\ a.us <= b.us

\* timedelta(days, seconds, microseconds), normalised so that
\* 0 <= seconds < 86400 and 0 <= microseconds < 10^6
TimeDelta(d, s, u) ==
    LET s1 == s + (u \div MicrosPerSecond)
    IN  [kind |-> "timedelta",
         days |-> d + (s1 \div SecondsPerDay),
         seconds |-> s1 % SecondsPerDay,
         microseconds |-> u % MicrosPerSecond]

\* datetime - datetime
DtSub(a, b) == TimeDelta(a.day - b.day, a.sec - b.sec, a.us - b.us)

\* timedelta + timedelta
TdAdd(x, y) ==
    TimeDelta(x.days + y.days, x.seconds + y.seconds,
              x.microseconds + y.microseconds)

\* Variant of TdDiv: the quotient truncated instead of rounded.
TdDivTruncating(x, n) ==
    LET qd == x.days \div n
        s2 == (x.days % n) * SecondsPerDay + x.seconds
        u2 == (s2 % n) * MicrosPerSecond + x.microseconds
    IN  TimeDelta(qd, s2 \div n, u2 \div n)

\* timedelta / int: the quotient of the total number of microseconds, rounded
\* to the nearest microsecond, ties to the even one.  The quotient is taken
\* unit by unit (days, then seconds, then microseconds, carrying the
\* remainder down), which yields the same value as dividing the total.
TdDiv(x, n) ==
    LET qd == x.days \div n
        s2 == (x.days % n) * SecondsPerDay + x.seconds
        qs == s2 \div n
        u2 == (s2 % n) * MicrosPerSecond + x.microseconds
        qu == u2 \div n
        r  == u2 % n
        up == (2 * r > n) \/ (2 * r = n /\ qu % 2 = 1)
    IN  TimeDelta(qd, qs, IF up THEN qu + 1 ELSE qu)

----------------------------------------------------------------------------
(* Non-negative integers of any size, as decimal digits, least significant *)
(* first, zero being the empty sequence.                                   *)

RECURSIVE ToDigits(_)
ToDigits(n) == IF n = 0 THEN <<>> ELSE <<n % 10>> \o ToDigits(n \div 10)

DigitsTimesPow10(d, e) == IF d = <<>> THEN <<>> ELSE [i \in 1..e |-> 0] \o d

----------------------------------------------------------------------------
(* Call records and the inputs callers draw from *)

CallRecord(id, ct, dt, at, rt, s) ==
    [call_id |-> id, call_time |-> ct, dispatch_time |-> dt,
     arrival_time |-> at, resolution_time |-> rt, success |-> s]

\* The three records of the example usage, and its timeframe.
Example1 == CallRecord(1, DT(738794, 52200, 0), DT(738794, 52260, 0),
                          DT(738794, 52500, 0), DT(738794, 53400, 0), TRUE)
Example2 == CallRecord(2, DT(738795, 33300, 0), DT(738795, 33360, 0),
                          DT(738795, 33600, 0), DT(738795, 35100, 0), FALSE)
Example3 == CallRecord(3, DT(738796, 72300, 0), DT(738796, 72360, 0),
                          DT(738796, 72600, 0), DT(738796, 73800, 0), TRUE)
ExampleStart == DT(739160, 0, 0)
ExampleEnd == DT(739161, 86340, 0)

ExampleCalls == {Example1, Example2, Example3}

\* Two instants one microsecond apart, on either side of a full second, and
\* every record whose four timestamps are among them, in any order.
T0 == DT(738794, 52199, 999999)
T1 == DT(738794, 52200, 0)
TickTimes == {T0, T1}

TickCalls ==
    {CallRecord(1, ct, dt, at, rt, s) :
        ct \in TickTimes, dt \in TickTimes, at \in TickTimes,
        rt \in TickTimes, s \in BOOLEAN}

\* The inputs of each universe: the records passed to add_call_log, the
\* records the lists passed to add_multiple_call_logs are made of, and the
\* bounds passed to calls_in_timeframe.
SingleCalls(u) == IF u = "example" THEN ExampleCalls ELSE TickCalls

\* how many of a record's timestamps differ from the one before it
Changes(c) ==
    (IF c.call_time # c.dispatch_time THEN 1 ELSE 0)
    + (IF c.dispatch_time # c.arrival_time THEN 1 ELSE 0)
    + (IF c.arrival_time # c.resolution_time THEN 1 ELSE 0)

\* of the tick records: three ordered ones, and one for each comparison of
\* the ordering that fails alone
BatchCalls(u) ==
    IF u = "example" THEN ExampleCalls
    ELSE {c \in TickCalls : c.success /\ Changes(c) = 1}

Instants(u) ==
    IF u = "example"
    THEN {c.call_time : c \in ExampleCalls} \cup {ExampleStart, ExampleEnd}
    ELSE TickTimes

SeqsUpTo(S, n) == UNION {[1..k -> S] : k \in 0..n}

----------------------------------------------------------------------------
(* Values of result and exc *)

None == [kind |-> "None"]
List(items) == [kind |-> "list", items |-> items]
\* a number num / den, num in decimal digits
Float(num, den) == [kind |-> "float", num |-> num, den |-> den]

NoExc == [cls |-> "None", msg |-> ""]
ValueError(msg) == [cls |-> "ValueError", msg |-> msg]

OrderingError == ValueError("Timestamps are not in logical order.")
NoLogsResponseError ==
    ValueError("No call logs available to calculate average response time.")
NoLogsRateError ==
    ValueError("No call logs available to calculate success rate.")
NoLogsResolutionError ==
    ValueError("No call logs available to calculate average resolution time.")

NoArgs == [kind |-> "none"]

----------------------------------------------------------------------------
(* The methods, as functions of the list and the arguments *)

\* Variant of Ordered: the last comparison is left out.
OrderedUpToArrival(c) ==
    /\ DtLE(c.call_time, c.dispatch_time)
    /\ DtLE(c.dispatch_time, c.arrival_time)

\* call_time <= dispatch_time <= arrival_time <= resolution_time
Ordered(c) ==
    /\ DtLE(c.call_time, c.dispatch_time)
    /\ DtLE(c.dispatch_time, c.arrival_time)
    /\ DtLE(c.arrival_time, c.resolution_time)

\* Variant of AppendRecord: a record whose call_id is stored already is dropped.
AppendUnlessKnownId(logs, c) ==
    IF \E i \in DOMAIN logs : logs[i].call_id = c.call_id
    THEN logs ELSE Append(logs, c)

\* self.call_logs.append(call_record)
AppendRecord(logs, c) == Append(logs, c)

\* Variant of AddCallLog: the record is appended before it is validated.
AddCallLogThenValidate(logs, c) ==
    [logs |-> Append(logs, c),
     exc |-> IF /\ DtLE(c.call_time, c.dispatch_time)
                /\ DtLE(c.dispatch_time, c.arrival_time)
                /\ DtLE(c.arrival_time, c.resolution_time)
             THEN NoExc ELSE OrderingError]

\* add_call_log: the list afterwards and the exception raised, if any
AddCallLog(logs, c) ==
    IF ~Ordered(c)
    THEN [logs |-> logs, exc |-> OrderingError]
    ELSE [logs |-> AppendRecord(logs, c), exc |-> NoExc]

\* Variant of AddMultipleCallLogs: every record is validated before any is
\* stored, so that a failing batch stores nothing.
AddMultipleAllOrNothing(logs, calls) ==
    IF \E k \in DOMAIN calls :
          ~(/\ DtLE(calls[k].call_time, calls[k].dispatch_time)
            /\ DtLE(calls[k].dispatch_time, calls[k].arrival_time)
            /\ DtLE(calls[k].arrival_time, calls[k].resolution_time))
    THEN [logs |-> logs, exc |-> OrderingError]
    ELSE [logs |-> logs \o calls, exc |-> NoExc]

\* add_multiple_call_logs: add_call_log on each record in turn; the first
\* exception ends the loop and propagates to the caller
RECURSIVE AddMultipleCallLogs(_, _)
AddMultipleCallLogs(logs, calls) ==
    IF calls = <<>> THEN [logs |-> logs, exc |-> NoExc]
    ELSE LET r == AddCallLog(logs, Head(calls))
         IN  IF r.exc # NoExc THEN r
             ELSE AddMultipleCallLogs(r.logs, Tail(calls))

\* Variant of NoLogs: a single record counts as none.
FewerThanTwoLogs(logs) == Len(logs) <= 1

\* `if not self.call_logs`
NoLogs(logs) == Len(logs) = 0

\* Variant of ResponseTime: measured to the dispatch, not the arrival.
TimeToDispatch(c) == DtSub(c.dispatch_time, c.call_time)

ResponseTime(c) == DtSub(c.arrival_time, c.call_time)
ResolutionTime(c) == DtSub(c.resolution_time, c.call_time)

RECURSIVE TotalResponseTime(_)
TotalResponseTime(logs) ==
    IF logs = <<>> THEN TimeDelta(0, 0, 0)
    ELSE TdAdd(TotalResponseTime(SubSeq(logs, 1, Len(logs) - 1)),
               ResponseTime(logs[Len(logs)]))

RECURSIVE TotalResolutionTime(_)
TotalResolutionTime(logs) ==
    IF logs = <<>> THEN TimeDelta(0, 0, 0)
    ELSE TdAdd(TotalResolutionTime(SubSeq(logs, 1, Len(logs) - 1)),
               ResolutionTime(logs[Len(logs)]))

\* Variant of AverageResponseTime: the divisor is one too large.
AverageResponseTimeOffByOne(logs) ==
    TdDiv(TotalResponseTime(logs), Len(logs) + 1)

AverageResponseTime(logs) == TdDiv(TotalResponseTime(logs), Len(logs))
AverageResolutionTime(logs) == TdDiv(TotalResolutionTime(logs), Len(logs))

\* sum(call['success'] for call in self.call_logs)
RECURSIVE SuccessfulCalls(_)
SuccessfulCalls(logs) ==
    IF logs = <<>> THEN 0
    ELSE (IF Head(logs).success THEN 1 ELSE 0) + SuccessfulCalls(Tail(logs))

\* the factor 10000000000000000000 is 10 to this power
RateScaleExponent == 19

\* (successful_calls / len(self.call_logs)) * 10000000000000000000
SuccessRate(logs) ==
    Float(DigitsTimesPow10(ToDigits(SuccessfulCalls(logs)), RateScaleExponent),
          Len(logs))

\* Variant of InTimeframe: the end of the timeframe is excluded.
InTimeframeEndExclusive(c, start_time, end_time) ==
    DtLE(start_time, c.call_time) /\ ~DtLE(end_time, c.call_time)

\* start_time <= call['call_time'] <= end_time
InTimeframe(c, start_time, end_time) ==
    DtLE(start_time, c.call_time) /\ DtLE(c.call_time, end_time)

\* the list comprehension of calls_in_timeframe
RECURSIVE CallsInTimeframe(_, _, _)
CallsInTimeframe(logs, start_time, end_time) ==
    IF logs = <<>> THEN <<>>
    ELSE (IF InTimeframe(Head(logs), start_time, end_time)
          THEN <<Head(logs)>> ELSE <<>>)
         \o CallsInTimeframe(Tail(logs), start_time, end_time)

----------------------------------------------------------------------------
(* The state machine: one action per method, its arguments drawn from the  *)
(* inputs.  An action runs the whole method and leaves the method's name   *)
(* in op, its arguments in args, and its return value in result or the     *)
(* exception it raised in exc.                                             *)

Metrics == {"average_response_time", "success_rate", "average_resolution_time"}

\* __init__: an empty call log
InitStore ==
    /\ call_logs = <<>>
    /\ op = "__init__"
    /\ args = NoArgs
    /\ result = None
    /\ exc = NoExc

Init == InitStore /\ universe = "ticks"
InitExample == InitStore /\ universe = "example"

add_call_log ==
    /\ Len(call_logs) < MaxLogs
    /\ \E c \in SingleCalls(universe) :
          LET r == AddCallLog(call_logs, c)
          IN  /\ call_logs' = r.logs
              /\ exc' = r.exc
              /\ args' = [call |-> c]
    /\ op' = "add_call_log"
    /\ result' = None
    /\ UNCHANGED universe

add_multiple_call_logs ==
    /\ \E calls \in SeqsUpTo(BatchCalls(universe), MaxBatch) :
          /\ Len(call_logs) + Len(calls) <= MaxLogs
          /\ LET r == AddMultipleCallLogs(call_logs, calls)
             IN  /\ call_logs' = r.logs
                 /\ exc' = r.exc
          /\ args' = [calls |-> calls]
    /\ op' = "add_multiple_call_logs"
    /\ result' = None
    /\ UNCHANGED universe

average_response_time ==
    /\ IF NoLogs(call_logs)
       THEN result' = None /\ exc' = NoLogsResponseError
       ELSE result' = AverageResponseTime(call_logs) /\ exc' = NoExc
    /\ op' = "average_response_time"
    /\ args' = NoArgs
    /\ UNCHANGED <<call_logs, universe>>

success_rate ==
    /\ IF NoLogs(call_logs)
       THEN result' = None /\ exc' = NoLogsRateError
       ELSE result' = SuccessRate(call_logs) /\ exc' = NoExc
    /\ op' = "success_rate"
    /\ args' = NoArgs
    /\ UNCHANGED <<call_logs, universe>>

average_resolution_time ==
    /\ IF NoLogs(call_logs)
       THEN result' = None /\ exc' = NoLogsResolutionError
       ELSE result' = AverageResolutionTime(call_logs) /\ exc' = NoExc
    /\ op' = "average_resolution_time"
    /\ args' = NoArgs
    /\ UNCHANGED <<call_logs, universe>>

calls_in_timeframe ==
    /\ \E start_time \in Instants(universe), end_time \in Instants(universe) :
          /\ result' = List(CallsInTimeframe(call_logs, start_time, end_time))
          /\ args' = [start_time |-> start_time, end_time |-> end_time]
    /\ exc' = NoExc
    /\ op' = "calls_in_timeframe"
    /\ UNCHANGED <<call_logs, universe>>

Next ==
    \/ add_call_log
    \/ add_multiple_call_logs
    \/ average_response_time
    \/ success_rate
    \/ average_resolution_time
    \/ calls_in_timeframe

Spec == Init /\ [][Next]_vars
SpecExample == InitExample /\ [][Next]_vars

----------------------------------------------------------------------------
(* Properties *)

\* The ordering the specification requires of a record's four timestamps.
Chronological(c) ==
    /\ DtLE(c.call_time, c.dispatch_time)
    /\ DtLE(c.dispatch_time, c.arrival_time)
    /\ DtLE(c.arrival_time, c.resolution_time)

IsPrefix(s, t) == Len(s) <= Len(t) /\ SubSeq(t, 1, Len(s)) = s

\* microseconds from datetime b to datetime a
MicrosBetween(a, b) ==
    ((a.day - b.day) * SecondsPerDay + (a.sec - b.sec)) * MicrosPerSecond
    + (a.us - b.us)

\* a timedelta in microseconds
Micros(td) ==
    (td.days * SecondsPerDay + td.seconds) * MicrosPerSecond + td.microseconds

Abs(x) == IF x < 0 THEN -x ELSE x

\* avg is total / n to the microsecond: the nearest one, the even one of two
NearestMicro(avg, total, n) ==
    /\ 2 * Abs(n * avg - total) <= n
    /\ 2 * Abs(n * avg - total) = n => avg % 2 = 0

\* digits times a small number, plus carry
RECURSIVE DigitsTimes(_, _, _)
DigitsTimes(d, n, carry) ==
    IF d = <<>> THEN ToDigits(carry)
    ELSE LET v == Head(d) * n + carry
         IN  IF n = 0 THEN <<>>
             ELSE <<v % 10>> \o DigitsTimes(Tail(d), n, v \div 10)

\* digits <= digits
DigitsLE(a, b) ==
    \/ Len(a) < Len(b)
    \/ /\ Len(a) = Len(b)
       /\ \/ a = b
          \/ \E i \in 1..Len(a) :
                /\ a[i] < b[i]
                /\ \A j \in (i+1)..Len(a) : a[j] = b[j]

RECURSIVE SumOf(_, _)
SumOf(f, S) ==
    IF S = {} THEN 0
    ELSE LET x == CHOOSE y \in S : TRUE IN f[x] + SumOf(f, S \ {x})

\* C1: add_call_log with timestamps that violate call_time <= dispatch_time
\* <= arrival_time <= resolution_time raises the ordering error and leaves
\* the store exactly as it was.
C1_InvalidOrderingRejected ==
    [][(op' = "add_call_log" /\ ~Chronological(args'.call))
          => (exc' = OrderingError /\ call_logs' = call_logs)]_vars

\* add_call_log raised on a record whose arrival is after its resolution
\* (the other two comparisons hold), with records in the store.
C1_Witness ==
    /\ op = "add_call_log"
    /\ exc = OrderingError
    /\ Len(call_logs) >= 1
    /\ DtLE(args.call.call_time, args.call.dispatch_time)
    /\ DtLE(args.call.dispatch_time, args.call.arrival_time)
    /\ ~DtLE(args.call.arrival_time, args.call.resolution_time)

\* C2: in every reachable state every stored record satisfies call_time <=
\* dispatch_time <= arrival_time <= resolution_time.
C2_StoredRecordsChronological ==
    \A i \in DOMAIN call_logs : Chronological(call_logs[i])

\* a batch has just failed and the store holds records
C2_Witness ==
    /\ op = "add_multiple_call_logs"
    /\ exc = OrderingError
    /\ Len(call_logs) >= 2

\* C3: add_multiple_call_logs stores its inputs in order up to the first one
\* with invalid timestamps, raises there without undoing the earlier ones,
\* and stores all of them when all are valid.
C3_BatchStopsAtFirstInvalid ==
    [][op' = "add_multiple_call_logs" =>
          LET calls == args'.calls
              bad == {k \in DOMAIN calls : ~Chronological(calls[k])}
          IN  IF bad = {}
              THEN exc' = NoExc /\ call_logs' = call_logs \o calls
              ELSE LET k == CHOOSE j \in bad : \A i \in bad : j <= i
                   IN  /\ exc' = OrderingError
                       /\ call_logs' = call_logs \o SubSeq(calls, 1, k - 1)
      ]_vars

\* a batch of two failed on its second record: the first one is stored, at
\* the end of a store that held a record before
C3_Witness ==
    /\ op = "add_multiple_call_logs"
    /\ exc = OrderingError
    /\ Len(args.calls) = 2
    /\ Chronological(args.calls[1])
    /\ Len(call_logs) = 2
    /\ call_logs[2] = args.calls[1]

\* C4 as stated: a metric on an empty store raises an error of a kind other
\* than that of the ordering error instead of returning a value, and a
\* metric on a non-empty store does not raise.
C4_EmptyStoreErrorIsDistinctKind ==
    op \in Metrics =>
        IF call_logs = <<>>
        THEN exc # NoExc /\ result = None /\ exc.cls # OrderingError.cls
        ELSE exc = NoExc

\* C4, amended: a metric on an empty store raises a ValueError, the class of
\* the ordering error too, with a message of its own, instead of returning a
\* value; a metric on a non-empty store returns a value and does not raise.
C4_EmptyStoreRaisesValueError ==
    op \in Metrics =>
        IF call_logs = <<>>
        THEN /\ result = None
             /\ exc.cls = "ValueError"
             /\ exc.cls = OrderingError.cls
             /\ exc.msg # OrderingError.msg
        ELSE exc = NoExc /\ result # None

\* success_rate was called on an empty store and raised
C4_Witness ==
    /\ op = "success_rate"
    /\ call_logs = <<>>
    /\ exc = NoLogsRateError

\* C5: calls_in_timeframe returns the stored records with start <= call_time
\* <= end, in insertion order, duplicates kept; the empty list when none
\* matches or start > end; and it does not raise.
C5_TimeframeIsOrderedSelection ==
    op = "calls_in_timeframe" =>
        LET r == result.items
            In == {i \in DOMAIN call_logs :
                     /\ DtLE(args.start_time, call_logs[i].call_time)
                     /\ DtLE(call_logs[i].call_time, args.end_time)}
        IN  /\ exc = NoExc
            /\ Len(r) = Cardinality(In)
            /\ \A j \in 1..Len(r) :
                  r[j] = call_logs[CHOOSE i \in In :
                                     Cardinality({k \in In : k < i}) = j - 1]
            /\ ~DtLE(args.start_time, args.end_time) => r = <<>>

\* the filter kept a record twice and left another out
C5_Witness ==
    /\ op = "calls_in_timeframe"
    /\ Len(call_logs) = 3
    /\ Len(result.items) = 2
    /\ result.items[1] = result.items[2]
    /\ call_logs[2] # result.items[1]

\* C6: success_rate on a non-empty store with k successful records out of N
\* returns 100 * k / N, a value from 0 to 100.
C6_SuccessRateIsPercentage ==
    (op = "success_rate" /\ call_logs # <<>>) =>
        LET k == Cardinality({i \in DOMAIN call_logs : call_logs[i].success})
            N == Len(call_logs)
        IN  /\ exc = NoExc
            /\ result.kind = "float"
            /\ DigitsTimes(result.num, N, 0)
                  = DigitsTimes(ToDigits(100 * k), result.den, 0)
            /\ DigitsLE(result.num, ToDigits(100 * result.den))

\* C7: average_response_time on N >= 1 records returns the sum of
\* arrival_time - call_time over the stored records, divided by N (as a
\* timedelta: to the microsecond).
C7_AverageResponseIsMean ==
    (op = "average_response_time" /\ call_logs # <<>>) =>
        LET d == [i \in DOMAIN call_logs |->
                    MicrosBetween(call_logs[i].arrival_time,
                                  call_logs[i].call_time)]
        IN  /\ exc = NoExc
            /\ result.kind = "timedelta"
            /\ NearestMicro(Micros(result), SumOf(d, DOMAIN d),
                            Len(call_logs))

\* the mean of three response times, two microseconds in all, one of them
\* zero, on records whose dispatch and arrival differ: one microsecond
C7_Witness ==
    /\ op = "average_response_time"
    /\ Len(call_logs) = 3
    /\ result = TimeDelta(0, 0, 1)
    /\ \E i \in 1..3 : call_logs[i].arrival_time = call_logs[i].call_time
    /\ \E i \in 1..3 : call_logs[i].dispatch_time # call_logs[i].arrival_time

\* C8: average_resolution_time on N >= 1 records returns the sum of
\* resolution_time - call_time over the stored records, divided by N (as a
\* timedelta: to the microsecond).
C8_AverageResolutionIsMean ==
    (op = "average_resolution_time" /\ call_logs # <<>>) =>
        LET d == [i \in DOMAIN call_logs |->
                    MicrosBetween(call_logs[i].resolution_time,
                                  call_logs[i].call_time)]
        IN  /\ exc = NoExc
            /\ result.kind = "timedelta"
            /\ NearestMicro(Micros(result), SumOf(d, DOMAIN d),
                            Len(call_logs))

\* the mean of three resolution times, two microseconds in all, on records
\* one of which arrived before it was resolved: one microsecond
C8_Witness ==
    /\ op = "average_resolution_time"
    /\ Len(call_logs) = 3
    /\ result = TimeDelta(0, 0, 1)
    /\ \E i \in 1..3 : call_logs[i].resolution_time = call_logs[i].call_time
    /\ \E i \in 1..3 : call_logs[i].arrival_time # call_logs[i].resolution_time

\* a store of exactly two records, one received at 14:30 and reached at
\* 14:35, the other received at 9:15 and reached at 9:20
TwoExampleRecords ==
    /\ Len(call_logs) = 2
    /\ \E i, j \in 1..2 :
          /\ i # j
          /\ call_logs[i].call_time.sec = 14 * 3600 + 30 * 60
          /\ call_logs[i].arrival_time
                = DT(call_logs[i].call_time.day, 14 * 3600 + 35 * 60, 0)
          /\ call_logs[j].call_time.sec = 9 * 3600 + 15 * 60
          /\ call_logs[j].arrival_time
                = DT(call_logs[j].call_time.day, 9 * 3600 + 20 * 60, 0)

\* C9 as stated: on that store average_response_time returns 4.5 minutes.
C9_ExampleAverageIsFourAndAHalfMinutes ==
    (op = "average_response_time" /\ TwoExampleRecords) =>
        result = TimeDelta(0, 4 * 60 + 30, 0)

\* C9, amended: on that store average_response_time returns 5 minutes.
C9_ExampleAverageIsFiveMinutes ==
    (op = "average_response_time" /\ TwoExampleRecords) =>
        exc = NoExc /\ result = TimeDelta(0, 5 * 60, 0)

\* average_response_time has returned on the store of the two records
C9_Witness ==
    /\ op = "average_response_time"
    /\ TwoExampleRecords
    /\ call_logs = <<Example1, Example2>>
    /\ exc = NoExc

\* C10: the store starts empty; every step leaves the records it held as a
\* prefix of the records it holds; an add_call_log that does not raise adds
\* its record, once, at the end, also when the record's call_id is stored
\* already; the metrics and calls_in_timeframe leave the store unchanged.
C10_AppendOnly ==
    /\ call_logs = <<>>
    /\ [][/\ IsPrefix(call_logs, call_logs')
          /\ (op' = "add_call_log" /\ exc' = NoExc)
                => call_logs' = call_logs \o <<args'.call>>
          /\ op' \in Metrics \cup {"calls_in_timeframe"}
                => call_logs' = call_logs
         ]_vars

\* add_call_log has stored a record whose call_id was in the store already,
\* on a record that differs from it
C10_Witness ==
    /\ op = "add_call_log"
    /\ exc = NoExc
    /\ Len(call_logs) >= 2
    /\ call_logs[Len(call_logs)] = args.call
    /\ \E i \in 1..(Len(call_logs) - 1) :
          /\ call_logs[i].call_id = args.call.call_id
          /\ call_logs[i] # args.call

====
